---- MODULE Spec2Model ----
(***************************************************************************)
(* Model of the video-pose-detection example of datachain-examples:        *)
(*   video_utils.py      split_video_to_frames (the Frame Sampler)         *)
(*   ultralitics_utils.py normalize_to_pixel, normalize_bbox,              *)
(*                        process_annotation, extract_yolo_results,        *)
(*                        process_frame2results, visualize_ultralytics_... *)
(*                                                                         *)
(* Four specifications share the variables:                                *)
(*   Spec      one caller making successive split_video_to_frames calls    *)
(*   SpecConc  two callers running split_video_to_frames concurrently      *)
(*   SpecAgg   extract_yolo_results / process_frame2results on a list      *)
(*   SpecVis   visualize_ultralytics_results on a shape and a scale        *)
(*                                                                         *)
(* Numbers that are floats in the program are kept exact: fps and step are *)
(* held in tenths, normalized coordinates in quarters, scale in eighths    *)
(* (all exactly representable, so the float products are exact too).       *)
(***************************************************************************)
EXTENDS Integers, Sequences, FiniteSets, TLC

VARIABLES
    pc,            \* per caller: position inside split_video_to_frames
    args,          \* per caller: the arguments of the current call
    callno,        \* per caller: number of calls started so far
    cap,           \* per caller: state of the cv2.VideoCapture handle
    frame_number,  \* per caller: local frame_number
    saved_frames,  \* per caller: local saved_frames
    result,        \* per caller: how the current call ended
    before,        \* per caller: the file system as it was when the call began
    fs,            \* the target directory video_output_dir on disk
    detections,    \* argument of extract_yolo_results / process_frame2results
    image,         \* the decoded frame image handed to process_frame2results
    agg,           \* outcome of extract_yolo_results
    results,       \* outcome of process_frame2results
    vis_in,        \* argument of visualize_ultralytics_results
    new_size       \* the size visualize_ultralytics_results asks resize for

splitVars == <<pc, args, callno, cap, frame_number, saved_frames, result, before, fs>>
aggVars   == <<detections, image, agg, results>>
visVars   == <<vis_in, new_size>>
vars      == <<pc, args, callno, cap, frame_number, saved_frames, result, before, fs,
               detections, image, agg, results, vis_in, new_size>>

-----------------------------------------------------------------------------
(* Bounds *)

MaxCalls  == 2     \* successive calls of the one caller of Spec
MaxFrames == 3     \* frames a stream delivers before end-of-stream
MaxStep   == 3     \* largest integer step tried
MaxN      == 2     \* detections in one frame
MaxK      == 2     \* joints of one detection
MaxDim    == 4     \* image height / width for the visualizer
MaxScale8 == 12    \* largest scale, in eighths

Procs    == {1, 2}
SeqProcs == {1}

-----------------------------------------------------------------------------
(* Small arithmetic helpers *)

Min(a, b) == IF a <= b THEN a ELSE b

\* Python int() of the exact quotient n/d (d > 0): truncation toward zero.
TruncDiv(n, d) == IF n >= 0 THEN n \div d ELSE -((-n) \div d)

-----------------------------------------------------------------------------
(* File names: f"{prefix}_{frame_number:04d}.jpg" *)

DigitChars == <<"0", "1", "2", "3", "4", "5", "6", "7", "8", "9">>

RECURSIVE Decimal(_)
\* str(n) for n >= 0, as a sequence of digit characters
Decimal(n) == IF n < 10 THEN <<DigitChars[n + 1]>>
              ELSE Decimal(n \div 10) \o <<DigitChars[(n % 10) + 1]>>

RECURSIVE ZeroPad(_, _)
\* the "0{width}d" part of the format: pad on the left to a minimum width
ZeroPad(s, width) == IF Len(s) >= width THEN s ELSE ZeroPad(<<"0">> \o s, width)

FrameFilename(prefix, n) == <<prefix, "_">> \o ZeroPad(Decimal(n), 4) \o <<".jpg">>

-----------------------------------------------------------------------------
(* Inputs of split_video_to_frames *)

\* A step is a Python number: isint is isinstance(step, int), x10 its value in tenths.
IntStep(k) == [isint |-> TRUE, x10 |-> 10 * k]
Steps == {IntStep(k) : k \in 0..MaxStep} \cup {[isint |-> FALSE, x10 |-> 10]}

StepInt(step) == step.x10 \div 10

\* A video: whether cv2 can open it, its CAP_PROP_FPS in tenths, its frame count.
Videos ==
    {[opens |-> FALSE, fps10 |-> 0, F |-> 0]}
    \cup {[opens |-> TRUE, fps10 |-> 10 * MaxStep, F |-> f] : f \in 0..MaxFrames}
    \cup {[opens |-> TRUE, fps10 |-> 10 * MaxStep - 5, F |-> MaxFrames]}

Prefixes == {"frame", "img"}

Inputs == [video : Videos, prefix : Prefixes, step : Steps, rewrite : BOOLEAN]

TheVideo == [opens |-> TRUE, fps10 |-> 10 * MaxStep, F |-> MaxFrames]

\* The concurrent callers work on the same video with the default prefix.
ConcInputs == [video : {TheVideo}, prefix : {"frame"},
               step : {IntStep(1), IntStep(MaxStep - 1)}, rewrite : BOOLEAN]

NoArgs == [video |-> [opens |-> FALSE, fps10 |-> 0, F |-> 0], prefix |-> "frame",
           step |-> IntStep(1), rewrite |-> TRUE]

\* Bookkeeping kept with the directory: the call whose os.makedirs created it, that
\* call's arguments, and whether that call ran to its end.
NoCreator == [by |-> <<0, 0>>, args |-> NoArgs, complete |-> FALSE]

EmptyFs == [exists |-> FALSE, files |-> {}, creator |-> NoCreator]

Names(files) == {f.name : f \in files}

-----------------------------------------------------------------------------
(* The conditions and file-system effects of split_video_to_frames *)

\* line 89: not isinstance(step, int) or step <= 0 or step >= fps
StepInvalidOffByOne(step, fps10) ==
    ~step.isint \/ step.x10 <= 0 \/ step.x10 > fps10

StepInvalid(step, fps10) ==
    ~step.isint \/ step.x10 <= 0 \/ step.x10 >= fps10

\* line 102: frame_number % step == 0
ShouldSaveShifted(n, step) == (n + 1) % StepInt(step) = 0

ShouldSave(n, step) == n % StepInt(step) = 0

\* shutil.rmtree, first half: every entry of the directory is unlinked
RmtreeKeepsFiles(d) == d

RmtreeUnlinked(d) == [d EXCEPT !.files = {}]

\* os.makedirs on a missing directory
MakedirsNothing(d, who, a) == [d EXCEPT !.creator = [by |-> who, args |-> a, complete |-> FALSE]]

MakedirsCreated(d, who, a) ==
    [d EXCEPT !.exists = TRUE,
              !.creator = [by |-> who, args |-> a, complete |-> FALSE]]

\* cv2.imwrite: creates or replaces the file; writes nothing into a missing directory
ImwriteDropped(d, name, who) == d

Imwrite(d, name, who) ==
    IF d.exists
    THEN [d EXCEPT !.files = {f \in d.files : f.name # name}
                              \cup {[name |-> name, writer |-> who]}]
    ELSE d

-----------------------------------------------------------------------------
(* split_video_to_frames, one action per step of the function *)

Me(p) == <<p, callno[p]>>

Finish(p, how) ==
    /\ pc' = [pc EXCEPT ![p] = "done"]
    /\ result' = [result EXCEPT ![p] = how]

\* the caller invokes split_video_to_frames(video_path, output_dir, prefix, step, rewrite)
Call(p, ins, limit) ==
    /\ pc[p] \in {"idle", "done"}
    /\ callno[p] < limit
    /\ \E a \in ins :
          args' = [args EXCEPT ![p] = a]
    /\ callno' = [callno EXCEPT ![p] = @ + 1]
    /\ pc' = [pc EXCEPT ![p] = "open"]
    /\ cap' = [cap EXCEPT ![p] = "none"]
    /\ result' = [result EXCEPT ![p] = "none"]
    /\ frame_number' = [frame_number EXCEPT ![p] = 0]
    /\ saved_frames' = [saved_frames EXCEPT ![p] = 0]
    /\ before' = [before EXCEPT ![p] = fs]
    /\ UNCHANGED <<fs, aggVars, visVars>>

\* lines 69-73: cap = cv2.VideoCapture(video_path); exit if not opened
VideoCapture(p) ==
    /\ pc[p] = "open"
    /\ IF args[p].video.opens
       THEN /\ cap' = [cap EXCEPT ![p] = "open"]
            /\ pc' = [pc EXCEPT ![p] = "exists"]
            /\ UNCHANGED result
       ELSE /\ Finish(p, "VideoOpenError")
            /\ UNCHANGED cap
    /\ UNCHANGED <<args, callno, frame_number, saved_frames, before, fs, aggVars, visVars>>

\* lines 78-83 with the check dropped: the directory is always removed
CheckExistsAlwaysRewrite(p) ==
    /\ pc[p] = "exists"
    /\ pc' = [pc EXCEPT ![p] = IF fs.exists THEN "rmtree" ELSE "makedirs"]
    /\ UNCHANGED <<args, callno, cap, frame_number, saved_frames, result, before, fs, aggVars, visVars>>

\* lines 78-83: os.path.exists(video_output_dir), then rmtree or exit
CheckExists(p) ==
    /\ pc[p] = "exists"
    /\ IF fs.exists
       THEN IF args[p].rewrite
            THEN /\ pc' = [pc EXCEPT ![p] = "rmtree"]
                 /\ UNCHANGED result
            ELSE Finish(p, "OutputExistsError")
       ELSE /\ pc' = [pc EXCEPT ![p] = "makedirs"]
            /\ UNCHANGED result
    /\ UNCHANGED <<args, callno, cap, frame_number, saved_frames, before, fs, aggVars, visVars>>

\* line 80, shutil.rmtree: scan the directory and unlink its entries
RmtreeUnlink(p) ==
    /\ pc[p] = "rmtree"
    /\ IF fs.exists
       THEN /\ fs' = RmtreeUnlinked(fs)
            /\ pc' = [pc EXCEPT ![p] = "rmdir"]
            /\ UNCHANGED result
       ELSE /\ Finish(p, "FileNotFoundError")
            /\ UNCHANGED fs
    /\ UNCHANGED <<args, callno, cap, frame_number, saved_frames, before, aggVars, visVars>>

\* line 80, shutil.rmtree: remove the (now empty) directory itself
RmtreeRmdir(p) ==
    /\ pc[p] = "rmdir"
    /\ IF ~fs.exists
       THEN /\ Finish(p, "FileNotFoundError")
            /\ UNCHANGED fs
       ELSE IF fs.files # {}
       THEN /\ Finish(p, "OSError")
            /\ UNCHANGED fs
       ELSE /\ fs' = [fs EXCEPT !.exists = FALSE]
            /\ pc' = [pc EXCEPT ![p] = "makedirs"]
            /\ UNCHANGED result
    /\ UNCHANGED <<args, callno, cap, frame_number, saved_frames, before, aggVars, visVars>>

\* line 85: os.makedirs(video_output_dir)
Makedirs(p) ==
    /\ pc[p] = "makedirs"
    /\ IF fs.exists
       THEN /\ Finish(p, "FileExistsError")
            /\ UNCHANGED fs
       ELSE /\ fs' = MakedirsCreated(fs, Me(p), args[p])
            /\ pc' = [pc EXCEPT ![p] = "validate"]
            /\ UNCHANGED result
    /\ UNCHANGED <<args, callno, cap, frame_number, saved_frames, before, aggVars, visVars>>

\* lines 87-94: fps = cap.get(CAP_PROP_FPS); validate step; frame_number = saved_frames = 0
ValidateStep(p) ==
    /\ pc[p] = "validate"
    /\ IF StepInvalid(args[p].step, args[p].video.fps10)
       THEN /\ Finish(p, "InvalidStepError")
            /\ UNCHANGED <<frame_number, saved_frames>>
       ELSE /\ frame_number' = [frame_number EXCEPT ![p] = 0]
            /\ saved_frames' = [saved_frames EXCEPT ![p] = 0]
            /\ pc' = [pc EXCEPT ![p] = "read"]
            /\ UNCHANGED result
    /\ UNCHANGED <<args, callno, cap, before, fs, aggVars, visVars>>

\* lines 96-107: one iteration of the decode loop
ReadFrame(p) ==
    /\ pc[p] = "read"
    /\ IF frame_number[p] >= args[p].video.F
       THEN \* ret is False: break
            /\ pc' = [pc EXCEPT ![p] = "release"]
            /\ UNCHANGED <<frame_number, saved_frames, fs>>
       ELSE /\ IF ShouldSave(frame_number[p], args[p].step)
               THEN /\ fs' = Imwrite(fs, FrameFilename(args[p].prefix, frame_number[p]), Me(p))
                    /\ saved_frames' = [saved_frames EXCEPT ![p] = @ + 1]
               ELSE UNCHANGED <<fs, saved_frames>>
            /\ frame_number' = [frame_number EXCEPT ![p] = @ + 1]
            /\ UNCHANGED pc
    /\ UNCHANGED <<args, callno, cap, result, before, aggVars, visVars>>

\* lines 109-111: cap.release(); print the saved-frame count; return
Release(p) ==
    /\ pc[p] = "release"
    /\ cap' = [cap EXCEPT ![p] = "released"]
    /\ fs' = IF fs.creator.by = Me(p) THEN [fs EXCEPT !.creator.complete = TRUE] ELSE fs
    /\ Finish(p, "ok")
    /\ UNCHANGED <<args, callno, frame_number, saved_frames, before, aggVars, visVars>>

-----------------------------------------------------------------------------
(* Detections: raw pose annotations (pose_annotation.dict()) *)

\* Normalized values are held in quarters: 3 stands for 0.75.
Shapes == {<<2, 3>>, <<4, 4>>}      \* orig_shape = (height, width)

BoxSet == {[x1 |-> 0, y1 |-> 1, x2 |-> 3, y2 |-> 4],
           [x1 |-> 2, y1 |-> 3, x2 |-> 1, y2 |-> 1]}

\* K joints; the variant picks the coordinates
KeypointsOf(K, variant) ==
    [x       |-> [i \in 1..K |-> (i + variant) % 5],
     y       |-> [i \in 1..K |-> (2 * i + variant) % 5],
     visible |-> [i \in 1..K |-> (3 * i + variant) % 5]]

Annotations ==
    {[orig_shape |-> sh, boxes |-> b, confidence |-> 1 + v, cls |-> 0,
      keypoints |-> KeypointsOf(K, v)] :
        sh \in Shapes, b \in BoxSet, K \in 1..MaxK, v \in {1, 2}}

DetectionLists == UNION {[1..n -> Annotations] : n \in 0..MaxN}

\* PIL image as a numpy array: its ndim and, along the last axis, its channels
Images == {[ndim |-> 3, channels |-> <<"R", "G", "B">>],
           [ndim |-> 3, channels |-> <<"R", "G", "B", "A">>],
           [ndim |-> 2, channels |-> <<"L">>]}

-----------------------------------------------------------------------------
(* ultralitics_utils.py *)

\* line 20: int(value * dim_size)
normalize_to_pixel(value4, dim_size) == TruncDiv(value4 * dim_size, 4)

\* lines 35-42
normalize_bbox(data, height, width) ==
    <<normalize_to_pixel(data.boxes.x1, width),
      normalize_to_pixel(data.boxes.y1, height),
      normalize_to_pixel(data.boxes.x2, width),
      normalize_to_pixel(data.boxes.y2, height),
      data.confidence,
      data.cls>>

\* torch.tensor of a list of equally long rows
TorchTensor(rows) ==
    [shape |-> IF rows = <<>> THEN <<0>> ELSE <<Len(rows), Len(rows[1])>>,
     data  |-> rows]

\* tensor.unsqueeze(0)
Unsqueeze0(t) == [shape |-> <<1>> \o t.shape, data |-> <<t.data>>]

\* lines 55-72
process_annotation(pose_annotation) ==
    LET data   == pose_annotation
        height == data.orig_shape[1]
        width  == data.orig_shape[2]
        n      == Min(Len(data.keypoints.x),
                      Min(Len(data.keypoints.y), Len(data.keypoints.visible)))   \* zip
        keypoints_data ==
            TorchTensor([i \in 1..n |->
                <<normalize_to_pixel(data.keypoints.x[i], width),
                  normalize_to_pixel(data.keypoints.y[i], height),
                  data.keypoints.visible[i]>>])
    IN  [boxes     |-> TorchTensor(<<normalize_bbox(data, height, width)>>),
         keypoints |-> Unsqueeze0(keypoints_data)]

RECURSIVE Flatten(_)
Flatten(ss) == IF ss = <<>> THEN <<>> ELSE Head(ss) \o Flatten(Tail(ss))

RECURSIVE SumDim0(_)
SumDim0(ts) == IF ts = <<>> THEN 0 ELSE Head(ts).shape[1] + SumDim0(Tail(ts))

RECURSIVE ReverseSeq(_)
ReverseSeq(s) == IF s = <<>> THEN <<>> ELSE ReverseSeq(Tail(s)) \o <<Head(s)>>

\* torch.cat(ts, dim=0) of a non-empty list: every size but the first must agree
CatCompatible(ts) == \A i \in 1..Len(ts) : Tail(ts[i].shape) = Tail(ts[1].shape)

TorchCatReversed(ts) ==
    [shape |-> <<SumDim0(ts)>> \o Tail(ts[1].shape),
     data  |-> ReverseSeq(Flatten([i \in 1..Len(ts) |-> ts[i].data]))]

TorchCat(ts) ==
    [shape |-> <<SumDim0(ts)>> \o Tail(ts[1].shape),
     data  |-> Flatten([i \in 1..Len(ts) |-> ts[i].data])]

\* lines 85-102; Boxes and Keypoints hold the tensor and orig_shape they are given
extract_yolo_results(dets) ==
    LET all_boxes_data     == [i \in 1..Len(dets) |-> process_annotation(dets[i]).boxes]
        all_keypoints_data == [i \in 1..Len(dets) |-> process_annotation(dets[i]).keypoints]
    IN  IF Len(dets) > 0 /\ ~CatCompatible(all_boxes_data)
        THEN [status |-> "RuntimeError"]
        ELSE IF Len(dets) > 0 /\ ~CatCompatible(all_keypoints_data)
        THEN [status |-> "RuntimeError"]
        ELSE IF Len(dets) = 0
        THEN [status |-> "IndexError"]          \* line 98: detections[0]
        ELSE [status    |-> "ok",
              boxes     |-> [data |-> TorchCat(all_boxes_data),
                             orig_shape |-> dets[1].orig_shape],
              keypoints |-> [data |-> TorchCat(all_keypoints_data),
                             orig_shape |-> dets[1].orig_shape]]

ExtractYoloResults ==
    /\ agg.status = "pending"
    /\ agg' = extract_yolo_results(detections)
    /\ UNCHANGED <<detections, image, results, splitVars, visVars>>

\* lines 154-170
ProcessFrame2Results ==
    /\ results.status = "pending"
    /\ LET bgr_array == IF image.ndim = 3 /\ Len(image.channels) = 3
                        THEN [image EXCEPT !.channels = ReverseSeq(image.channels)]
                        ELSE image
           extracted == extract_yolo_results(detections)
       IN  results' = IF extracted.status = "ok"
                      THEN [status    |-> "ok",
                            orig_img  |-> bgr_array,
                            boxes     |-> extracted.boxes.data,
                            keypoints |-> extracted.keypoints.data]
                      ELSE [status |-> extracted.status]
    /\ UNCHANGED <<detections, image, agg, splitVars, visVars>>

\* Python round() of the exact quotient n/d (n >= 0, d > 0): nearest, ties to even.
RoundDiv(n, d) ==
    LET q == n \div d
        r == n % d
    IN  IF 2 * r < d THEN q
        ELSE IF 2 * r > d THEN q + 1
        ELSE IF q % 2 = 0 THEN q ELSE q + 1

\* line 124: new_size = (int(orig_width * scale), int(orig_height * scale))
NewSizeRounded(orig_shape, scale8) ==
    <<RoundDiv(orig_shape[2] * scale8, 8), RoundDiv(orig_shape[1] * scale8, 8)>>

NewSize(orig_shape, scale8) ==
    <<TruncDiv(orig_shape[2] * scale8, 8), TruncDiv(orig_shape[1] * scale8, 8)>>

\* lines 123-126: the size handed to im_rgb.resize
VisualizeUltralyticsResults ==
    /\ new_size = <<>>
    /\ new_size' = NewSize(vis_in.orig_shape, vis_in.scale8)
    /\ UNCHANGED <<vis_in, splitVars, aggVars>>

-----------------------------------------------------------------------------
(* Specifications *)

InitSplit ==
    /\ pc = [p \in Procs |-> "idle"]
    /\ args = [p \in Procs |-> NoArgs]
    /\ callno = [p \in Procs |-> 0]
    /\ cap = [p \in Procs |-> "none"]
    /\ frame_number = [p \in Procs |-> 0]
    /\ saved_frames = [p \in Procs |-> 0]
    /\ result = [p \in Procs |-> "none"]
    /\ before = [p \in Procs |-> EmptyFs]
    /\ fs = EmptyFs

IdleAgg ==
    /\ detections = <<>>
    /\ image = [ndim |-> 2, channels |-> <<"L">>]
    /\ agg = [status |-> "pending"]
    /\ results = [status |-> "pending"]

IdleVis ==
    /\ vis_in = [orig_shape |-> <<1, 1>>, scale8 |-> 8]
    /\ new_size = <<>>

Init == InitSplit /\ IdleAgg /\ IdleVis

Next ==
    \E p \in SeqProcs :
        \/ Call(p, Inputs, MaxCalls)
        \/ VideoCapture(p)
        \/ CheckExists(p)
        \/ RmtreeUnlink(p)
        \/ RmtreeRmdir(p)
        \/ Makedirs(p)
        \/ ValidateStep(p)
        \/ ReadFrame(p)
        \/ Release(p)

\* one caller, successive calls of split_video_to_frames
Spec == Init /\ [][Next]_vars

NextConc ==
    \E p \in Procs :
        \/ Call(p, ConcInputs, 1)
        \/ VideoCapture(p)
        \/ CheckExists(p)
        \/ RmtreeUnlink(p)
        \/ RmtreeRmdir(p)
        \/ Makedirs(p)
        \/ ValidateStep(p)
        \/ ReadFrame(p)
        \/ Release(p)

\* two callers of split_video_to_frames on the same video and output_dir
SpecConc == Init /\ [][NextConc]_vars

InitAgg ==
    /\ InitSplit /\ IdleVis
    /\ detections \in DetectionLists
    /\ image \in Images
    /\ agg = [status |-> "pending"]
    /\ results = [status |-> "pending"]

NextAgg == ExtractYoloResults \/ ProcessFrame2Results

SpecAgg == InitAgg /\ [][NextAgg]_vars

InitVis ==
    /\ InitSplit /\ IdleAgg
    /\ vis_in \in [orig_shape : (1..MaxDim) \X (1..MaxDim), scale8 : (-2)..MaxScale8]
    /\ new_size = <<>>

NextVis == VisualizeUltralyticsResults

SpecVis == InitVis /\ [][NextVis]_vars

-----------------------------------------------------------------------------
(* Vocabulary of the properties *)

\* ceil(F / s)
CeilDiv(F, s) == (F + s - 1) \div s

\* 0, s, 2s, ... below F
SampledIndices(F, s) == {i \in 0..(F - 1) : i % s = 0}

\* prefix, underscore, exactly four decimal digits, ".jpg" (indices below 10000)
FourDigitName(prefix, i) ==
    <<prefix, "_",
      DigitChars[((i \div 1000) % 10) + 1], DigitChars[((i \div 100) % 10) + 1],
      DigitChars[((i \div 10) % 10) + 1], DigitChars[(i % 10) + 1],
      ".jpg">>

\* step is an integer with 1 <= step < fps
StepInRange(a) == a.step.isint /\ 10 <= a.step.x10 /\ a.step.x10 < a.video.fps10

\* the call got past Open and Prepare Output
PastPrepare(p) == args[p].video.opens /\ (~before[p].exists \/ args[p].rewrite)

OwnFiles(p) == {f \in fs.files : f.writer = Me(p)}

Other(p) == CHOOSE q \in Procs : q # p

-----------------------------------------------------------------------------
(* C1: on a fresh target directory, a stream of F frames split with a valid *)
(* step s succeeds, reports ceil(F/s) saved frames, and leaves exactly the  *)
(* files prefix_dddd.jpg for the indices 0, s, 2s, ... below F.             *)
C1_SamplingCount ==
    \A p \in SeqProcs :
        (pc[p] = "done" /\ args[p].video.opens /\ StepInRange(args[p]) /\ ~before[p].exists)
        => LET F == args[p].video.F
               s == StepInt(args[p].step)
           IN  /\ result[p] = "ok"
               /\ saved_frames[p] = CeilDiv(F, s)
               /\ Cardinality(fs.files) = CeilDiv(F, s)
               /\ Names(fs.files) = {FourDigitName(args[p].prefix, i) : i \in SampledIndices(F, s)}

C1_Witness ==
    \E p \in SeqProcs :
        /\ pc[p] = "done" /\ result[p] = "ok" /\ ~before[p].exists
        /\ args[p].video.F = 3 /\ args[p].step = IntStep(2)
        /\ saved_frames[p] = 2
        /\ Names(fs.files) = {<<"img", "_", "0", "0", "0", "0", ".jpg">>,
                              <<"img", "_", "0", "0", "0", "2", ".jpg">>}

(* C2: when the target directory exists and rewrite is False the call ends  *)
(* with OutputExistsError, and from its start to its end the directory and  *)
(* its files stay exactly as they were.                                     *)
C2_OverwriteFalseUntouched ==
    \A p \in SeqProcs :
        /\ (pc[p] # "idle" /\ before[p].exists /\ ~args[p].rewrite) => fs = before[p]
        /\ (pc[p] = "done" /\ args[p].video.opens /\ before[p].exists /\ ~args[p].rewrite)
           => result[p] = "OutputExistsError"
        /\ result[p] = "OutputExistsError" => (before[p].exists /\ ~args[p].rewrite)

C2_Witness ==
    \E p \in SeqProcs :
        /\ result[p] = "OutputExistsError"
        /\ before[p].creator.complete
        /\ Cardinality(before[p].files) >= 2
        /\ fs.files = before[p].files

(* C3: every call with rewrite=True that opens its video and has a valid    *)
(* step succeeds; afterwards the directory holds exactly the files that     *)
(* call wrote; and when the directory was last produced by a successful     *)
(* call with the same video, step and prefix, the file set is the same.     *)
C3_OverwriteTrueIdempotent ==
    \A p \in SeqProcs :
        (pc[p] = "done" /\ args[p].rewrite /\ args[p].video.opens /\ StepInRange(args[p]))
        => LET a == args[p]
               c == before[p].creator
           IN  /\ result[p] = "ok"
               /\ fs.files = {[name |-> FrameFilename(a.prefix, i), writer |-> Me(p)] :
                                 i \in SampledIndices(a.video.F, StepInt(a.step))}
               /\ (before[p].exists /\ c.complete /\ c.args.video = a.video
                      /\ c.args.step = a.step /\ c.args.prefix = a.prefix)
                  => Names(fs.files) = Names(before[p].files)

C3_Witness ==
    \E p \in SeqProcs :
        /\ pc[p] = "done" /\ result[p] = "ok" /\ args[p].rewrite
        /\ callno[p] = 2
        /\ before[p].exists /\ before[p].creator.complete
        /\ before[p].creator.args = args[p]
        /\ Cardinality(before[p].files) >= 2
        /\ Names(fs.files) = Names(before[p].files)
        /\ \A f \in fs.files : f.writer = Me(p)

(* C4: a call that reaches step validation passes it exactly when step is   *)
(* an integer with 1 <= step < fps: step = 0 and step = fps end with        *)
(* InvalidStepError, step = fps - 1 >= 1 succeeds.                          *)
C4_StepValidation ==
    \A p \in SeqProcs :
        /\ (pc[p] = "done" /\ PastPrepare(p))
           => /\ result[p] = "ok" <=> StepInRange(args[p])
              /\ result[p] = "InvalidStepError" <=> ~StepInRange(args[p])
              /\ args[p].step = IntStep(0) => result[p] = "InvalidStepError"
              /\ (args[p].step.isint /\ args[p].step.x10 = args[p].video.fps10)
                 => result[p] = "InvalidStepError"
              /\ (args[p].step.isint /\ args[p].step.x10 = args[p].video.fps10 - 10
                    /\ args[p].step.x10 >= 10)
                 => result[p] = "ok"
        /\ result[p] \in {"ok", "InvalidStepError"} => PastPrepare(p)

C4_Witness ==
    \E p \in SeqProcs :
        /\ pc[p] = "done" /\ result[p] = "InvalidStepError"
        /\ args[p].step.isint /\ args[p].step.x10 = args[p].video.fps10
        /\ args[p].step.x10 > 0

(* C5: for N >= 0 annotations sharing orig_shape and joint count K,         *)
(* extract_yolo_results returns without error a box batch of shape (N,6)    *)
(* and a keypoint batch of shape (N,K,3), N = 0 included.                   *)
SharedShapeAndK(dets) ==
    \A i, j \in 1..Len(dets) :
        /\ dets[i].orig_shape = dets[j].orig_shape
        /\ Len(dets[i].keypoints.x) = Len(dets[j].keypoints.x)

C5_BatchShapes ==
    (agg.status # "pending" /\ SharedShapeAndK(detections))
    => /\ agg.status = "ok"
       /\ agg.boxes.data.shape = <<Len(detections), 6>>
       /\ Len(agg.keypoints.data.shape) = 3
       /\ agg.keypoints.data.shape[1] = Len(detections)
       /\ Len(detections) >= 1
          => agg.keypoints.data.shape[2] = Len(detections[1].keypoints.x)
       /\ agg.keypoints.data.shape[3] = 3

(* C5 without the empty list: for N >= 1 the shapes are (N,6) and (N,K,3).   *)
C5_ShapesWhenNonEmpty ==
    (agg.status # "pending" /\ SharedShapeAndK(detections) /\ Len(detections) >= 1)
    => /\ agg.status = "ok"
       /\ agg.boxes.data.shape = <<Len(detections), 6>>
       /\ agg.keypoints.data.shape
            = <<Len(detections), Len(detections[1].keypoints.x), 3>>

(* C5, the assembler's side: process_frame2results succeeds on a frame with  *)
(* no detections.                                                           *)
C5_AssemblerAcceptsEmpty ==
    (results.status # "pending" /\ detections = <<>>) => results.status = "ok"

(* C6: whenever extract_yolo_results returns, row i of the box batch and    *)
(* row i of the keypoint batch are the rows process_annotation gives for    *)
(* the i-th detection, one row per detection, in input order; and it does   *)
(* return for every non-empty list whose detections share K.                *)
C6_OrderPreserved ==
    agg.status # "pending"
    => /\ (Len(detections) >= 1 /\ SharedShapeAndK(detections)) => agg.status = "ok"
       /\ agg.status = "ok"
          => /\ Len(agg.boxes.data.data) = Len(detections)
             /\ Len(agg.keypoints.data.data) = Len(detections)
             /\ \A i \in 1..Len(detections) :
                   /\ agg.boxes.data.data[i] = process_annotation(detections[i]).boxes.data[1]
                   /\ agg.keypoints.data.data[i]
                        = process_annotation(detections[i]).keypoints.data[1]

C6_Witness ==
    /\ agg.status = "ok"
    /\ Len(detections) = 2
    /\ process_annotation(detections[1]).boxes # process_annotation(detections[2]).boxes
    /\ process_annotation(detections[1]).keypoints # process_annotation(detections[2]).keypoints
    /\ agg.boxes.data.data[2] = process_annotation(detections[2]).boxes.data[1]

(* C7: no call that opened its video ends with the decode handle still open. *)
C7_HandleReleased ==
    \A p \in SeqProcs : (pc[p] = "done" /\ args[p].video.opens) => cap[p] = "released"

(* C8 as stated: each dimension of the new size is orig * scale rounded to  *)
(* the nearest integer.                                                     *)
C8_Rounded ==
    (new_size # <<>> /\ vis_in.scale8 > 0)
    => new_size = <<RoundDiv(vis_in.orig_shape[2] * vis_in.scale8, 8),
                    RoundDiv(vis_in.orig_shape[1] * vis_in.scale8, 8)>>

(* C8 amended: each dimension of the new size is orig * scale truncated to  *)
(* an integer: the largest integer not above orig * scale, width first.     *)
C8_Truncated ==
    (new_size # <<>> /\ vis_in.scale8 > 0)
    => /\ Len(new_size) = 2
       /\ 8 * new_size[1] <= vis_in.orig_shape[2] * vis_in.scale8
       /\ vis_in.orig_shape[2] * vis_in.scale8 < 8 * (new_size[1] + 1)
       /\ 8 * new_size[2] <= vis_in.orig_shape[1] * vis_in.scale8
       /\ vis_in.orig_shape[1] * vis_in.scale8 < 8 * (new_size[2] + 1)

C8_Witness ==
    /\ vis_in.orig_shape = <<3, 4>> /\ vis_in.scale8 = 5
    /\ new_size = <<2, 1>>

(* C9: a call that ends with InvalidStepError leaves the target directory   *)
(* existing and empty, whatever an earlier call had left there, and a call  *)
(* whose step is invalid never has a file of its own on disk.               *)
C9_InvalidStepLeavesEmptyDir ==
    \A p \in SeqProcs :
        /\ result[p] = "InvalidStepError" => (fs.exists /\ fs.files = {})
        /\ (pc[p] # "idle" /\ ~StepInRange(args[p])) => OwnFiles(p) = {}

C9_Witness ==
    \E p \in SeqProcs :
        /\ result[p] = "InvalidStepError"
        /\ args[p].rewrite
        /\ before[p].exists /\ before[p].creator.complete /\ before[p].files # {}
        /\ fs.exists /\ fs.files = {}

(* C10: with two concurrent callers, a caller can leave its decode loop     *)
(* having counted c saved frames while fewer than c of its files exist, and *)
(* a caller can fail in its directory removal or creation; each of these    *)
(* happens only after the other caller has got past its own exists-check    *)
(* on the same directory.                                                   *)
\* the names caller p has counted as saved so far
CountedNames(p) ==
    {FourDigitName(args[p].prefix, i) :
        i \in SampledIndices(frame_number[p], StepInt(args[p].step))}

LostFrames(p) ==
    /\ pc[p] \in {"release", "done"} /\ result[p] \in {"none", "ok"}
    /\ cap[p] # "none"
    /\ Cardinality(CountedNames(p) \cap Names(fs.files)) < saved_frames[p]

RaceFailure(p) == result[p] \in {"FileExistsError", "FileNotFoundError", "OSError"}

C10_DamageOnlyByRace ==
    \A p \in Procs :
        /\ LostFrames(p)
           => /\ callno[Other(p)] = 1 /\ args[Other(p)].rewrite
              /\ pc[Other(p)] \notin {"open", "exists", "rmtree"}
        /\ RaceFailure(p)
           => /\ callno[Other(p)] = 1
              /\ pc[Other(p)] \notin {"open", "exists"}

C10_Witness ==
    \E p \in Procs :
        /\ pc[p] = "release" /\ args[p].rewrite /\ args[Other(p)].rewrite
        /\ args[p] = args[Other(p)]
        /\ saved_frames[p] >= 2
        /\ Cardinality(CountedNames(p) \cap Names(fs.files)) < saved_frames[p]

C10_WitnessMakedirs ==
    \E p \in Procs :
        /\ result[p] = "FileExistsError" /\ args[p].rewrite /\ args[Other(p)].rewrite
        /\ fs.creator.by = Me(Other(p))

====
